---- MODULE Spec2Model ----
(***************************************************************************)
(* Discrete-event CPU scheduler simulator (armitaswan/Cpu_Scheduler_       *)
(* Simulation): the event queue (src/src/event.py), the process control    *)
(* block (src/src/pcb.py), the six scheduling policies                     *)
(* (src/src/schedulers/*.py) and the engine (src/src/simulator.py).        *)
(*                                                                         *)
(* The model follows the bodies of the methods as written.  Three defects  *)
(* of the sources act before any method body runs and are NOT part of the  *)
(* modelled behaviour; the model describes what the methods do once the    *)
(* names they use resolve:                                                 *)
(*   - event.py uses dataclasses.field without importing it (line 2), so   *)
(*     importing the module raises NameError;                              *)
(*   - simulator.py names MLFQScheduler and RoundRobinScheduler (lines     *)
(*     180, 191) without importing them;                                   *)
(*   - BaseScheduler.__init__ assigns self.ready_queue (line 10) although  *)
(*     SJF, SRTF, Priority and MLFQ define ready_queue as a read-only      *)
(*     property, so their constructors raise AttributeError.  The model    *)
(*     lets the property stand (the assignment has no effect on them).     *)
(* Every behaviour of the sources is therefore a prefix of a behaviour of  *)
(* this model.                                                             *)
(***************************************************************************)
EXTENDS Integers, Sequences, FiniteSets, TLC

VARIABLES
  \* ---- CPUSimulator (simulator.py:22-39) and the arguments of run ----
  processes,               \* pid -> PCB, the engine's table (empty before initialize_simulation)
  event_queue,             \* EventQueue.queue: the heapq array of events
  event_count,             \* EventQueue.event_count
  running_process,         \* pid of the running PCB, or None
  current_time,
  idle_time,
  last_update_time,
  is_context_switching,
  context_switch_end_time,
  completed_processes,     \* sequence of pids, in completion order
  gantt_chart,             \* sequence of <<start, end, pid>>
  context_switches,        \* stats_collector.context_switches
  preemptions,             \* stats_collector.preemptions
  context_switch_time,     \* constructor argument
  max_time,                \* argument of run
  pc,                      \* position: "new", "loop", "events", "advance", "done"; "queue" for a bare
                           \* EventQueue, "sched" for a bare scheduler
  \* ---- the scheduler object ----
  policy,                  \* which scheduler class was constructed
  queue,                   \* FCFS / RR: the deque of pids
  heap,                    \* SJF / SRTF / Priority: heapq array of <<key, arrival, pid>> entries
  queues,                  \* MLFQ: sequence of deques
  process_counts,          \* MLFQ: pid -> runs at the current level
  sched_preemptions,       \* scheduler.stats["preemptions"]
  last_boost_time,         \* MLFQ: time of the last priority boost
  last_aging_time,         \* Priority: time of the last aging sweep
  \* ---- observers (history variables, written but never read by the program) ----
  ready_ticks,             \* pid -> number of clock ticks the PCB spent in state READY
  cs_ticks,                \* number of clock ticks with is_context_switching set
  run_ticks,               \* set of <<t, pid>>: pid was in state RUNNING during the tick from t to t + 1
  expiries,                \* pid -> quantum expiries handled since the PCB was last admitted or changed level
  preemptor,               \* pid whose arrival or I/O return preempted the CPU, until the next dispatch
  last_op                  \* the last EventQueue or scheduler call and what it returned (bare
                           \* EventQueue and bare scheduler only)

simVars   == <<processes, running_process, current_time, idle_time, last_update_time,
               is_context_switching, context_switch_end_time, completed_processes,
               gantt_chart, context_switches, preemptions, context_switch_time, max_time>>
queueVars == <<event_queue, event_count>>
schedVars == <<policy, queue, heap, queues, process_counts, sched_preemptions, last_boost_time,
              last_aging_time>>
obsVars   == <<ready_ticks, cs_ticks, run_ticks, expiries, preemptor, last_op>>
vars      == <<simVars, queueVars, schedVars, obsVars, pc>>

\* ------------------------------------------------------------------ bounds
MaxTime == 7
MaxArrival == 1
MaxCpu == 2
MaxIo == 1
MaxPriority == 2
MaxSwitch == 1
MaxPushes == 5
MaxStamp == 1
TimeQuantum == 2
MaxRuns == 3

\* pids of the workload handed to initialize_simulation
Pids == {1, 2}

\* ------------------------------------------------------------------ values
\* Python's None for Optional[int] fields and for "no process"
None == -1

NoEvent == [key |-> <<None>>, type |-> "NONE", process_id |-> None, data |-> None]

\* ------------------------------------------------------------------ heapq
\* tuple comparison: the first differing element decides (equal tuples are not less)
LexLt(a, b) ==
  \E i \in 1..Len(a) :
     /\ i <= Len(b)
     /\ a[i] < b[i]
     /\ \A j \in 1..(i - 1) : a[j] = b[j]

\* Event is @dataclass(order=True) with only timestamp compared: key = <<timestamp>>;
\* scheduler heap entries are tuples (key, arrival_time, process_id, process)
ItemLt(x, y) == LexLt(x.key, y.key)

\* heapq._siftdown(heap, startpos, pos); positions are 0-based as in Python
RECURSIVE SiftDownLoop(_, _, _, _)
SiftDownLoop(h, startpos, pos, newitem) ==
  IF pos > startpos
  THEN LET parentpos == (pos - 1) \div 2
           parent == h[parentpos + 1]
       IN  IF ItemLt(newitem, parent)
           THEN SiftDownLoop([h EXCEPT ![pos + 1] = parent], startpos, parentpos, newitem)
           ELSE [h EXCEPT ![pos + 1] = newitem]
  ELSE [h EXCEPT ![pos + 1] = newitem]

SiftDown(h, startpos, pos) == SiftDownLoop(h, startpos, pos, h[pos + 1])

\* heapq._siftup(heap, pos): bubble the smaller child up to a leaf, then sift down
RECURSIVE SiftUpLoop(_, _, _, _)
SiftUpLoop(h, startpos, pos, newitem) ==
  LET endpos == Len(h)
      leftpos == 2 * pos + 1
      rightpos == leftpos + 1
      childpos == IF rightpos < endpos /\ ~ItemLt(h[leftpos + 1], h[rightpos + 1])
                  THEN rightpos ELSE leftpos
  IN  IF leftpos < endpos
      THEN SiftUpLoop([h EXCEPT ![pos + 1] = h[childpos + 1]], startpos, childpos, newitem)
      ELSE SiftDown([h EXCEPT ![pos + 1] = newitem], startpos, pos)

SiftUp(h, pos) == SiftUpLoop(h, pos, pos, h[pos + 1])

\* a push that appends without restoring the heap order
HeapPushNoSift(h, item) == Append(h, item)

\* heapq.heappush(heap, item)
HeapPush(h, item) == SiftDown(Append(h, item), 0, Len(h))

\* a pop that moves the last item to the root and does not sift it
HeapPopRestNoSift(h) ==
  LET rest == SubSeq(h, 1, Len(h) - 1)
  IN  IF rest # <<>> THEN [rest EXCEPT ![1] = h[Len(h)]] ELSE rest

\* heapq.heappop(heap): the array left after the pop (h non-empty)
HeapPopRest(h) ==
  LET lastelt == h[Len(h)]
      rest == SubSeq(h, 1, Len(h) - 1)
  IN  IF rest # <<>> THEN SiftUp([rest EXCEPT ![1] = lastelt], 0) ELSE rest

\* heapq.heappop(heap): the item returned (h non-empty)
HeapPopItem(h) == h[1]

\* ------------------------------------------------------------------ event.py
EventTypes == {"PROCESS_ARRIVAL", "CPU_BURST_COMPLETE", "IO_BURST_COMPLETE", "TIME_QUANTUM_EXPIRED"}

Event(timestamp, type, process_id, data) ==
  [key |-> <<timestamp>>, type |-> type, process_id |-> process_id, data |-> data]

Timestamp(e) == e.key[1]

\* EventQueue.push on the pair (queue, event_count)
EQPush(q, e) == [queue |-> HeapPush(q.queue, e), event_count |-> q.event_count + 1]

\* EventQueue.pop: the pair left, and the value returned (NoEvent stands for None)
EQPopRest(q) ==
  IF q.queue # <<>>
  THEN [queue |-> HeapPopRest(q.queue), event_count |-> q.event_count - 1]
  ELSE q

EQPopItem(q) == IF q.queue # <<>> THEN HeapPopItem(q.queue) ELSE NoEvent

\* EventQueue.peek
EQPeek(q) == IF q.queue # <<>> THEN q.queue[1] ELSE NoEvent

\* EventQueue.is_empty, EventQueue.size
EQIsEmpty(q) == Len(q.queue) = 0
EQSize(q) == Len(q.queue)

\* ------------------------------------------------------------------ pcb.py
ProcessStates == {"NEW", "READY", "RUNNING", "WAITING", "TERMINATED"}

\* PCB(process_id, arrival_time, total_cpu_time, remaining_cpu_time, io_burst_time, priority)
\* with remaining_cpu_time = total_cpu_time, as every caller constructs it
PCB(pid, arrival, cpu, io, prio) ==
  [process_id |-> pid, arrival_time |-> arrival, total_cpu_time |-> cpu,
   remaining_cpu_time |-> cpu, io_burst_time |-> io, priority |-> prio,
   state |-> "NEW", current_queue_level |-> 0,
   completion_time |-> None, first_run_time |-> None,
   total_waiting_time |-> 0, total_io_time |-> 0,
   preempted |-> FALSE, context_switches |-> 0,
   turnaround_time |-> None, waiting_time |-> None, response_time |-> None]

\* metrics whose response_time is the first run time itself
CalculateMetricsFromZero(p) ==
  IF p.completion_time # None
  THEN [p EXCEPT !.turnaround_time = p.completion_time - p.arrival_time,
                 !.waiting_time = p.total_waiting_time,
                 !.response_time = IF p.first_run_time # None /\ p.first_run_time # 0
                                   THEN p.first_run_time ELSE 0]
  ELSE p

\* PCB.calculate_metrics; "if self.first_run_time" is false for None and for 0
CalculateMetrics(p) ==
  IF p.completion_time # None
  THEN [p EXCEPT !.turnaround_time = p.completion_time - p.arrival_time,
                 !.waiting_time = p.total_waiting_time,
                 !.response_time = IF p.first_run_time # None /\ p.first_run_time # 0
                                   THEN p.first_run_time - p.arrival_time ELSE 0]
  ELSE p

\* ------------------------------------------------------------------ schedulers
Policies == {"FCFS", "SJF", "SRTF", "RR", "PriorityP", "PriorityNP", "MLFQ"}
DequePolicies == {"FCFS", "RR"}
HeapPolicies == {"SJF", "SRTF", "PriorityP", "PriorityNP"}

\* MLFQScheduler.__init__ defaults; time_quanta is the constructor argument
num_queues == 3
promotion_threshold == 2
boost_interval == 5000
time_quanta == <<1, 2, 4>>

\* the concatenation of a sequence of sequences (MLFQScheduler.ready_queue)
RECURSIVE Flatten(_)
Flatten(qs) == IF qs = <<>> THEN <<>> ELSE Head(qs) \o Flatten(Tail(qs))

\* number of entries of pid in a sequence of pids
Occurrences(seq, pid) == Cardinality({i \in 1..Len(seq) : seq[i] = pid})

\* a heap keyed by arrival time whatever the policy
HeapKeyByArrival(pol, p) == p.arrival_time

\* the key a heap scheduler pushes with the process
HeapKey(pol, p) ==
  CASE pol = "SJF" -> p.total_cpu_time
    [] pol = "SRTF" -> p.remaining_cpu_time
    [] OTHER -> p.priority

HeapEntry(pol, p) ==
  [key |-> <<HeapKey(pol, p), p.arrival_time, p.process_id>>, pid |-> p.process_id]

\* add_process of the constructed scheduler, on the engine state s
AddProcess(s, pid) ==
  CASE policy \in DequePolicies -> [s EXCEPT !.queue = Append(@, pid)]
    [] policy \in HeapPolicies ->
         [s EXCEPT !.heap = HeapPush(@, HeapEntry(policy, s.processes[pid]))]
    [] OTHER ->
         [s EXCEPT !.processes[pid].current_queue_level = 0,
                   !.queues[1] = Append(@, pid),
                   !.process_counts[pid] = 0]

\* index of the last non-empty MLFQ queue, 0 if all are empty
LastNonEmpty(qs) ==
  IF \E i \in 1..Len(qs) : qs[i] # <<>>
  THEN CHOOSE i \in 1..Len(qs) : qs[i] # <<>> /\ \A j \in (i + 1)..Len(qs) : qs[j] = <<>>
  ELSE 0

\* index (1-based) of the first non-empty MLFQ queue, 0 if all are empty
FirstNonEmpty(qs) ==
  IF \E i \in 1..Len(qs) : qs[i] # <<>>
  THEN CHOOSE i \in 1..Len(qs) : qs[i] # <<>> /\ \A j \in 1..(i - 1) : qs[j] = <<>>
  ELSE 0

\* a deque scheduler that hands out the newest entry
GetNextPidNewest(s) == IF s.queue # <<>> THEN s.queue[Len(s.queue)] ELSE None

\* get_next_process: the pid returned (None when nothing is stored)
GetNextPid(s) ==
  CASE policy \in DequePolicies -> IF s.queue # <<>> THEN Head(s.queue) ELSE None
    [] policy \in HeapPolicies -> IF s.heap # <<>> THEN HeapPopItem(s.heap).pid ELSE None
    [] OTHER -> IF FirstNonEmpty(s.queues) # 0
                THEN Head(s.queues[FirstNonEmpty(s.queues)]) ELSE None

\* get_next_process: the scheduler left behind
GetNextRest(s) ==
  CASE policy \in DequePolicies -> IF s.queue # <<>> THEN [s EXCEPT !.queue = Tail(@)] ELSE s
    [] policy \in HeapPolicies -> IF s.heap # <<>> THEN [s EXCEPT !.heap = HeapPopRest(@)] ELSE s
    [] OTHER -> LET i == FirstNonEmpty(s.queues)
                IN  IF i # 0
                    THEN [s EXCEPT !.queues[i] = Tail(@),
                                   !.process_counts[Head(s.queues[i])] = @ + 1]
                    ELSE s

\* a policy under which every admission preempts
ShouldPreemptAlways(s, cur, new) == TRUE

\* a scheduler that never asks for a preemption
ShouldPreemptNever(s, cur, new) == FALSE

\* a scheduler that also preempts on equal remaining time
ShouldPreemptOnTie(s, cur, new) ==
  cur # None /\ s.processes[new].remaining_cpu_time <= s.processes[cur].remaining_cpu_time

\* a Priority scheduler that ignores its preemptive flag
ShouldPreemptIgnoringMode(s, cur, new) ==
  cur # None /\ s.processes[new].priority < s.processes[cur].priority

\* should_preempt(current_process, new_process); cur may be None
ShouldPreempt(s, cur, new) ==
  CASE policy = "SRTF" ->
         cur # None /\ s.processes[new].remaining_cpu_time < s.processes[cur].remaining_cpu_time
    [] policy = "PriorityP" ->
         cur # None /\ s.processes[new].priority < s.processes[cur].priority
    [] policy = "MLFQ" ->
         cur # None /\ s.processes[new].current_queue_level < s.processes[cur].current_queue_level
    [] OTHER -> FALSE

\* on_time_quantum_expired(process)
OnTimeQuantumExpired(s, pid) ==
  LET p == s.processes[pid]
  IN  CASE policy = "SRTF" -> IF p.remaining_cpu_time > 0 THEN AddProcess(s, pid) ELSE s
        [] policy = "RR" ->
             IF p.remaining_cpu_time > 0
             THEN [s EXCEPT !.queue = Append(@, pid), !.sched_preemptions = @ + 1]
             ELSE s
        [] policy = "MLFQ" ->
             IF p.remaining_cpu_time > 0
             THEN LET current_level == p.current_queue_level
                      run_count == s.process_counts[pid]
                      demote == run_count >= promotion_threshold /\ current_level < num_queues - 1
                      new_level == IF demote THEN current_level + 1 ELSE current_level
                  IN  [s EXCEPT !.processes[pid].current_queue_level = new_level,
                                !.process_counts[pid] = IF demote THEN 0 ELSE @,
                                !.queues[new_level + 1] = Append(@, pid)]
             ELSE s
        [] OTHER -> s

\* MLFQScheduler.apply_priority_boost(current_time): queues 1..N-1 are emptied in
\* order into the tail of queue 0
ApplyPriorityBoost(s, now) ==
  IF now - s.last_boost_time >= boost_interval
  THEN LET moved == Flatten(Tail(s.queues))
       IN  [s EXCEPT !.last_boost_time = now,
                     !.queues = [i \in 1..Len(s.queues) |->
                                   IF i = 1 THEN s.queues[1] \o moved ELSE <<>>],
                     !.processes = [pid \in DOMAIN @ |->
                                      IF Occurrences(moved, pid) > 0
                                      THEN [@[pid] EXCEPT !.current_queue_level = 0]
                                      ELSE @[pid]],
                     !.process_counts = [pid \in DOMAIN @ |->
                                           IF Occurrences(moved, pid) > 0 THEN 0 ELSE @[pid]]]
  ELSE s

\* PriorityScheduler(aging_interval=1000)
aging_interval == 1000

\* PCB.age_priority(current_time, aging_interval): whether the priority is lowered
AgePriority(p, now) == now - p.arrival_time > aging_interval /\ p.priority > 1

\* PCB.age_priority(current_time, aging_interval): the PCB the call leaves behind
AgedPcb(p, now) == IF AgePriority(p, now) THEN [p EXCEPT !.priority = @ - 1] ELSE p

\* the loop of apply_aging over self.heap in list order: each entry is pushed on
\* new_heap, with the aged priority as its key if age_priority lowered it
RECURSIVE AgingLoop(_, _, _, _)
AgingLoop(entries, procs, new_heap, now) ==
  IF entries = <<>>
  THEN [processes |-> procs, heap |-> new_heap]
  ELSE LET e == Head(entries)
           p == procs[e.pid]
       IN  IF AgePriority(p, now)
           THEN AgingLoop(Tail(entries), [procs EXCEPT ![e.pid].priority = @ - 1],
                          HeapPush(new_heap,
                                   [e EXCEPT !.key = <<p.priority - 1, e.key[2], e.key[3]>>]),
                          now)
           ELSE AgingLoop(Tail(entries), procs, HeapPush(new_heap, e), now)

\* PriorityScheduler.apply_aging(current_time)
ApplyAging(s, now) ==
  IF now - s.last_aging_time >= aging_interval
  THEN LET r == AgingLoop(s.heap, s.processes, <<>>, now)
       IN  [s EXCEPT !.last_aging_time = now, !.processes = r.processes, !.heap = r.heap]
  ELSE s

\* MLFQScheduler.get_time_quantum_for_process
GetTimeQuantumForProcess(p) ==
  IF p.current_queue_level < Len(time_quanta)
  THEN time_quanta[p.current_queue_level + 1]
  ELSE time_quanta[Len(time_quanta)]

\* scheduler.ready_queue: the list BaseScheduler.__init__ creates and nothing ever
\* fills (FCFS and RR keep their processes in self.queue), or the subclass property
ReadyQueue(s) ==
  CASE policy \in DequePolicies -> <<>>
    [] policy \in HeapPolicies -> [i \in 1..Len(s.heap) |-> s.heap[i].pid]
    [] OTHER -> Flatten(s.queues)

\* what the scheduler object stores, whichever attribute holds it
Stored(s) == IF policy \in DequePolicies THEN s.queue ELSE ReadyQueue(s)

\* BaseScheduler.get_queue_length, BaseScheduler.is_empty
GetQueueLength(s) == Len(ReadyQueue(s))
IsEmpty(s) == Len(ReadyQueue(s)) = 0

\* BaseScheduler.update_waiting_times: one addition per entry of ready_queue
UpdateWaitingTimes(s, now, last) ==
  LET rq == ReadyQueue(s)
  IN  [s EXCEPT !.processes =
         [pid \in DOMAIN @ |->
            IF @[pid].state = "READY"
            THEN [@[pid] EXCEPT !.total_waiting_time = @ + (now - last) * Occurrences(rq, pid)]
            ELSE @[pid]]]

\* ------------------------------------------------------------------ simulator.py
\* the mutable program state as one value, so that handlers compose
St ==
  [processes |-> processes, eq |-> [queue |-> event_queue, event_count |-> event_count],
   running_process |-> running_process, current_time |-> current_time,
   idle_time |-> idle_time, last_update_time |-> last_update_time,
   is_context_switching |-> is_context_switching,
   context_switch_end_time |-> context_switch_end_time,
   completed_processes |-> completed_processes, gantt_chart |-> gantt_chart,
   context_switches |-> context_switches, preemptions |-> preemptions,
   queue |-> queue, heap |-> heap, queues |-> queues,
   process_counts |-> process_counts, sched_preemptions |-> sched_preemptions,
   last_boost_time |-> last_boost_time, last_aging_time |-> last_aging_time]

Commit(s) ==
  /\ processes' = s.processes
  /\ event_queue' = s.eq.queue
  /\ event_count' = s.eq.event_count
  /\ running_process' = s.running_process
  /\ current_time' = s.current_time
  /\ idle_time' = s.idle_time
  /\ last_update_time' = s.last_update_time
  /\ is_context_switching' = s.is_context_switching
  /\ context_switch_end_time' = s.context_switch_end_time
  /\ completed_processes' = s.completed_processes
  /\ gantt_chart' = s.gantt_chart
  /\ context_switches' = s.context_switches
  /\ preemptions' = s.preemptions
  /\ queue' = s.queue
  /\ heap' = s.heap
  /\ queues' = s.queues
  /\ process_counts' = s.process_counts
  /\ sched_preemptions' = s.sched_preemptions
  /\ last_boost_time' = s.last_boost_time
  /\ last_aging_time' = s.last_aging_time
  /\ UNCHANGED <<policy, context_switch_time, max_time>>

\* "if self.gantt_chart and self.gantt_chart[-1][2] == process.process_id":
\* the last segment's end becomes current_time
UpdateGantt(s, pid) ==
  LET g == s.gantt_chart
  IN  IF g # <<>> /\ g[Len(g)][3] = pid
      THEN [s EXCEPT !.gantt_chart[Len(g)] = <<g[Len(g)][1], s.current_time, pid>>]
      ELSE s

\* CPUSimulator._complete_current_process
CompleteCurrentProcess(s) ==
  IF s.running_process # None
  THEN LET pid == s.running_process
           s1 == [s EXCEPT !.processes[pid] =
                     CalculateMetrics([@ EXCEPT !.state = "TERMINATED",
                                                !.completion_time = s.current_time]),
                           !.completed_processes = Append(@, pid)]
       IN  [UpdateGantt(s1, pid) EXCEPT !.running_process = None]
  ELSE s

\* a preemption that forgets to take the PCB out of state RUNNING
PreemptLeavesRunning(s, new_process) ==
  IF s.running_process # None
  THEN LET pid == s.running_process
           s2 == AddProcess(s, pid)
           s3 == [UpdateGantt(s2, pid) EXCEPT !.running_process = None,
                                              !.preemptions = @ + 1]
       IN  IF new_process # None THEN AddProcess(s3, new_process) ELSE s3
  ELSE s

\* a preemption that credits the preempted process with one more tick of CPU demand
PreemptGivesBackTime(s, new_process) ==
  IF s.running_process # None
  THEN LET pid == s.running_process
           s1 == [s EXCEPT !.processes[pid].state = "READY",
                           !.processes[pid].preempted = TRUE,
                           !.processes[pid].context_switches = @ + 1,
                           !.processes[pid].remaining_cpu_time = @ + 1]
           s2 == AddProcess(s1, pid)
           s3 == [UpdateGantt(s2, pid) EXCEPT !.running_process = None,
                                              !.preemptions = @ + 1]
       IN  IF new_process # None THEN AddProcess(s3, new_process) ELSE s3
  ELSE s

\* CPUSimulator._preempt_current_process(new_process, quantum_expired)
PreemptCurrentProcess(s, new_process) ==
  IF s.running_process # None
  THEN LET pid == s.running_process
           s1 == [s EXCEPT !.processes[pid].state = "READY",
                           !.processes[pid].preempted = TRUE,
                           !.processes[pid].context_switches = @ + 1]
           s2 == AddProcess(s1, pid)
           s3 == [UpdateGantt(s2, pid) EXCEPT !.running_process = None,
                                              !.preemptions = @ + 1]
       IN  IF new_process # None THEN AddProcess(s3, new_process) ELSE s3
  ELSE s

\* the quantum _start_execution works with: 0 stands for None ("if time_quantum" is
\* false for both)
QuantumFor(p) ==
  CASE policy = "MLFQ" -> GetTimeQuantumForProcess(p)
    [] policy = "RR" -> TimeQuantum
    [] OTHER -> 0

\* CPUSimulator._start_execution
StartExecution(s, pid) ==
  LET p == s.processes[pid]
      time_quantum == QuantumFor(p)
      execution_time == IF time_quantum # 0
                        THEN IF p.remaining_cpu_time < time_quantum
                             THEN p.remaining_cpu_time ELSE time_quantum
                        ELSE p.remaining_cpu_time
      completion_time == s.current_time + execution_time
      eq1 == IF time_quantum # 0 /\ policy \in {"RR", "MLFQ"}
             THEN EQPush(s.eq, Event(completion_time, "TIME_QUANTUM_EXPIRED", pid, None))
             ELSE s.eq
      eq2 == EQPush(eq1, Event(completion_time, "CPU_BURST_COMPLETE", pid, None))
  IN  [s EXCEPT !.running_process = pid,
                !.processes[pid].state = "RUNNING",
                !.processes[pid].first_run_time =
                    IF @ = None THEN s.current_time ELSE @,
                !.eq = eq2,
                !.gantt_chart = Append(@, <<s.current_time, completion_time, pid>>)]

\* CPUSimulator._schedule_next_process: with a context-switch cost the process taken
\* from the scheduler is not kept anywhere
ScheduleNextProcessF(s) ==
  LET next_process == GetNextPid(s)
      s1 == GetNextRest(s)
  IN  IF next_process # None
      THEN IF context_switch_time > 0
           THEN [s1 EXCEPT !.is_context_switching = TRUE,
                           !.context_switch_end_time = s.current_time + context_switch_time]
           ELSE StartExecution(s1, next_process)
      ELSE s1

\* the common body of _handle_arrival and _handle_io_completion
AdmitF(s, pid) ==
  IF pid \in DOMAIN s.processes
  THEN LET s1 == AddProcess([s EXCEPT !.processes[pid].state = "READY"], pid)
       IN  IF s1.running_process # None /\ ShouldPreempt(s1, s1.running_process, pid)
           THEN PreemptCurrentProcess(s1, pid)
           ELSE s1
  ELSE s

\* CPUSimulator._handle_arrival
HandleArrivalF(s, ev) == AdmitF(s, ev.process_id)

\* CPUSimulator._handle_io_completion
HandleIoCompletionF(s, ev) == AdmitF(s, ev.process_id)

\* CPUSimulator._handle_cpu_completion
HandleCpuCompletionF(s, ev) ==
  IF s.running_process # None /\ s.running_process = ev.process_id
  THEN LET pid == s.running_process
           s1 == UpdateGantt(s, pid)
           p == s1.processes[pid]
       IN  IF p.remaining_cpu_time = 0
           THEN CompleteCurrentProcess(s1)
           ELSE [s1 EXCEPT !.processes[pid].state = "WAITING",
                           !.processes[pid].total_io_time = @ + p.io_burst_time,
                           !.eq = EQPush(@, Event(s.current_time + p.io_burst_time,
                                                  "IO_BURST_COMPLETE", pid, None)),
                           !.running_process = None]
  ELSE s

\* CPUSimulator._handle_timeout
HandleTimeoutF(s, ev) ==
  IF s.running_process # None /\ s.running_process = ev.process_id
  THEN PreemptCurrentProcess(OnTimeQuantumExpired(s, s.running_process), None)
  ELSE s

\* the loop condition of CPUSimulator.run
LoopCondition(s) ==
  /\ s.current_time <= max_time
  /\ ~(EQIsEmpty(s.eq) /\ IsEmpty(s) /\ s.running_process = None)

\* an event is due: the inner while condition of run
EventDue(s) == ~EQIsEmpty(s.eq) /\ Timestamp(EQPeek(s.eq)) <= s.current_time

\* the condition under which run calls _schedule_next_process
MaySchedule(s) ==
  ~s.is_context_switching /\ s.running_process = None /\ ~IsEmpty(s)

\* ------------------------------------------------------------------ actions: a run
\* the workloads: one PCB per pid; priorities vary only under the Priority policies,
\* the only ones that read them
Workloads ==
  {[pid \in Pids |-> PCB(pid, a[pid], c[pid], i[pid], r[pid])] :
     a \in [Pids -> 0..MaxArrival], c \in [Pids -> 1..MaxCpu],
     i \in [Pids -> 0..MaxIo], r \in [Pids -> 1..MaxPriority]}

\* "for process in processes: schedule_arrival(...)", the list being in pid order
RECURSIVE ScheduleArrivals(_, _, _)
ScheduleArrivals(q, table, left) ==
  IF left = {} THEN q
  ELSE LET pid == CHOOSE x \in left : \A y \in left : x <= y
       IN  ScheduleArrivals(
             EQPush(q, Event(table[pid].arrival_time, "PROCESS_ARRIVAL", pid, None)),
             table, left \ {pid})

NoOp == [op |-> "none", result |-> NoEvent, before |-> <<>>, pushed |-> 0, popped |-> 0]

\* CPUSimulator.__init__ with a freshly constructed scheduler
Init ==
  /\ pc = "new"
  /\ policy \in Policies
  /\ context_switch_time \in 0..MaxSwitch
  /\ max_time = MaxTime
  /\ processes = <<>>
  /\ event_queue = <<>>
  /\ event_count = 0
  /\ running_process = None
  /\ current_time = 0
  /\ idle_time = 0
  /\ last_update_time = 0
  /\ is_context_switching = FALSE
  /\ context_switch_end_time = 0
  /\ completed_processes = <<>>
  /\ gantt_chart = <<>>
  /\ context_switches = 0
  /\ preemptions = 0
  /\ queue = <<>>
  /\ heap = <<>>
  /\ queues = [i \in 1..num_queues |-> <<>>]
  /\ process_counts = [pid \in Pids |-> 0]
  /\ sched_preemptions = 0
  /\ last_boost_time = 0
  /\ last_aging_time = 0
  /\ ready_ticks = [pid \in Pids |-> 0]
  /\ cs_ticks = 0
  /\ run_ticks = {}
  /\ preemptor = None
  /\ expiries = [pid \in Pids |-> 0]
  /\ last_op = NoOp

\* CPUSimulator.initialize_simulation(processes)
InitializeSimulation ==
  /\ pc = "new"
  /\ \E w \in Workloads :
       /\ policy \notin {"PriorityP", "PriorityNP"} => \A pid \in Pids : w[pid].priority = 1
       /\ Commit([St EXCEPT !.processes = w,
                            !.eq = ScheduleArrivals(St.eq, w, Pids)])
  /\ pc' = "loop"
  /\ UNCHANGED obsVars

\* run, top of the while loop: _update_waiting_times, then the context-switch check
LoopHeadF(s) ==
  LET s1 == [UpdateWaitingTimes(s, s.current_time, s.last_update_time)
               EXCEPT !.last_update_time = s.current_time]
  IN  IF s1.is_context_switching /\ s1.current_time >= s1.context_switch_end_time
      THEN [s1 EXCEPT !.is_context_switching = FALSE, !.context_switches = @ + 1]
      ELSE s1

LoopHead ==
  /\ pc = "loop"
  /\ LoopCondition(St)
  /\ Commit(LoopHeadF(St))
  /\ pc' = "events"
  /\ UNCHANGED obsVars

\* run, inner while loop: "event = self.event_queue.pop(); self._handle_event(event)"
\* the event popped next, and the state once it is popped
DueEvent == EQPopItem(St.eq)
Popped == [St EXCEPT !.eq = EQPopRest(@)]

\* a dispatch that offers the due event to every handler
DueAnyType(type) == pc = "events" /\ EventDue(St)

\* _handle_event dispatches on the type of the due event
Due(type) == pc = "events" /\ EventDue(St) /\ DueEvent.type = type

HandleArrival ==
  /\ Due("PROCESS_ARRIVAL")
  /\ Commit(HandleArrivalF(Popped, DueEvent))
  /\ expiries' = [expiries EXCEPT ![DueEvent.process_id] = 0]
  /\ preemptor' = IF preemptions' # preemptions THEN DueEvent.process_id ELSE preemptor
  /\ UNCHANGED <<ready_ticks, cs_ticks, run_ticks, last_op, pc>>

HandleCpuCompletion ==
  /\ Due("CPU_BURST_COMPLETE")
  /\ Commit(HandleCpuCompletionF(Popped, DueEvent))
  /\ UNCHANGED <<obsVars, pc>>

HandleIoCompletion ==
  /\ Due("IO_BURST_COMPLETE")
  /\ Commit(HandleIoCompletionF(Popped, DueEvent))
  /\ expiries' = [expiries EXCEPT ![DueEvent.process_id] = 0]
  /\ preemptor' = IF preemptions' # preemptions THEN DueEvent.process_id ELSE preemptor
  /\ UNCHANGED <<ready_ticks, cs_ticks, run_ticks, last_op, pc>>

HandleTimeout ==
  /\ Due("TIME_QUANTUM_EXPIRED")
  /\ Commit(HandleTimeoutF(Popped, DueEvent))
  /\ expiries' =
       LET pid == DueEvent.process_id
       IN  IF running_process = pid
           THEN [expiries EXCEPT ![pid] =
                   IF processes'[pid].current_queue_level # processes[pid].current_queue_level
                   THEN 0 ELSE @ + 1]
           ELSE expiries
  /\ UNCHANGED <<ready_ticks, cs_ticks, run_ticks, preemptor, last_op, pc>>

\* run, after the events of this tick: dispatch if the CPU is free
ScheduleNextProcess ==
  /\ pc = "events"
  /\ ~EventDue(St)
  /\ MaySchedule(St)
  /\ Commit(ScheduleNextProcessF(St))
  /\ pc' = "advance"
  /\ preemptor' = IF running_process' # None THEN None ELSE preemptor
  /\ UNCHANGED <<ready_ticks, cs_ticks, run_ticks, expiries, last_op>>

\* idle accounting that ignores a context switch in flight
AdvanceClockIdleDuringSwitch(s) ==
  [s EXCEPT !.idle_time = IF s.running_process = None THEN @ + 1 ELSE @,
            !.current_time = @ + 1]

\* run, end of the loop body: idle accounting and the clock
AdvanceClockF(s) ==
  [s EXCEPT !.idle_time = IF s.running_process = None /\ ~s.is_context_switching
                          THEN @ + 1 ELSE @,
            !.current_time = @ + 1]

AdvanceClock ==
  /\ \/ pc = "advance"
     \/ pc = "events" /\ ~EventDue(St) /\ ~MaySchedule(St)
  /\ Commit(AdvanceClockF(St))
  /\ pc' = "loop"
  /\ ready_ticks' = [pid \in Pids |->
                       IF pid \in DOMAIN processes /\ processes[pid].state = "READY"
                       THEN ready_ticks[pid] + 1
                       ELSE ready_ticks[pid]]
  /\ cs_ticks' = IF is_context_switching THEN cs_ticks + 1 ELSE cs_ticks
  /\ run_ticks' = run_ticks \cup {<<current_time, pid>> : pid \in {q \in DOMAIN processes : processes[q].state = "RUNNING"}}
  /\ UNCHANGED <<expiries, preemptor, last_op>>

\* run, after the loop: "if self.running_process: self._complete_current_process()"
Finish ==
  /\ pc = "loop"
  /\ ~LoopCondition(St)
  /\ Commit(CompleteCurrentProcess(St))
  /\ pc' = "done"
  /\ UNCHANGED obsVars

Next ==
  \/ InitializeSimulation
  \/ LoopHead
  \/ HandleArrival
  \/ HandleCpuCompletion
  \/ HandleIoCompletion
  \/ HandleTimeout
  \/ ScheduleNextProcess
  \/ AdvanceClock
  \/ Finish

Spec == Init /\ [][Next]_vars

\* ------------------------------------------------------------------ actions: given workloads
\* runs of particular process lists: the two-process SRTF workload and the
\* one-process FCFS workload of the documentation's examples, an SRTF workload in
\* which a preempted process is dispatched again before its first CPU-completion
\* event is due, a list with a repeated pid, a list with a zero CPU demand, and a
\* preemptive Priority workload in which a process of priority 3 stays queued for
\* more than the aging interval, and an SRTF workload in which two shorter processes
\* arrive in the same tick while a third runs
Scenarios ==
  {[name |-> "srtf_preemption", policy |-> "SRTF", max_time |-> 150,
    processes |-> <<PCB(1, 0, 100, 0, 1), PCB(2, 10, 20, 0, 1)>>],
   [name |-> "fcfs_single", policy |-> "FCFS", max_time |-> 100,
    processes |-> <<PCB(1, 0, 50, 0, 1)>>],
   [name |-> "srtf_redispatch", policy |-> "SRTF", max_time |-> 12,
    processes |-> <<PCB(1, 0, 5, 0, 1), PCB(2, 1, 1, 4, 1)>>],
   [name |-> "duplicate_pid", policy |-> "SJF", max_time |-> 10,
    processes |-> <<PCB(1, 0, 2, 0, 1), PCB(1, 1, 3, 0, 2)>>],
   [name |-> "zero_cpu", policy |-> "SJF", max_time |-> 10,
    processes |-> <<PCB(1, 0, 0, 0, 1)>>],
   [name |-> "priority_aging", policy |-> "PriorityP", max_time |-> 1001,
    processes |-> <<PCB(1, 0, 600, 0, 1), PCB(2, 0, 600, 0, 3)>>],
   [name |-> "srtf_two_arrivals", policy |-> "SRTF", max_time |-> 3,
    processes |-> <<PCB(1, 0, 3, 0, 1), PCB(2, 1, 2, 0, 1), PCB(3, 1, 1, 0, 1)>>]}

\* the pids that occur in the lists
ScenarioPids ==
  UNION {{sc.processes[i].process_id : i \in 1..Len(sc.processes)} : sc \in Scenarios}

\* CPUSimulator(scheduler, context_switch_time=0) and the list the caller has built
InitScenario ==
  /\ pc = "new"
  /\ \E sc \in Scenarios :
        /\ policy = sc.policy
        /\ max_time = sc.max_time
        /\ last_op = [op |-> "new", name |-> sc.name, processes |-> sc.processes]
  /\ context_switch_time = 0
  /\ processes = <<>>
  /\ event_queue = <<>>
  /\ event_count = 0
  /\ running_process = None
  /\ current_time = 0
  /\ idle_time = 0
  /\ last_update_time = 0
  /\ is_context_switching = FALSE
  /\ context_switch_end_time = 0
  /\ completed_processes = <<>>
  /\ gantt_chart = <<>>
  /\ context_switches = 0
  /\ preemptions = 0
  /\ queue = <<>>
  /\ heap = <<>>
  /\ queues = [i \in 1..num_queues |-> <<>>]
  /\ process_counts = [pid \in Pids |-> 0]
  /\ sched_preemptions = 0
  /\ last_boost_time = 0
  /\ last_aging_time = 0
  /\ ready_ticks = [pid \in Pids |-> 0]
  /\ cs_ticks = 0
  /\ run_ticks = {}
  /\ preemptor = None
  /\ expiries = [pid \in ScenarioPids |-> 0]

\* "{p.process_id: p for p in processes}": a later entry of the list replaces an
\* earlier one with the same pid
ProcessTable(list) ==
  [pid \in {list[i].process_id : i \in 1..Len(list)} |->
     list[CHOOSE i \in 1..Len(list) :
            /\ list[i].process_id = pid
            /\ \A j \in (i + 1)..Len(list) : list[j].process_id # pid]]

\* "for process in processes: schedule_arrival(process.process_id, process.arrival_time)"
RECURSIVE ScheduleArrivalsOf(_, _)
ScheduleArrivalsOf(q, list) ==
  IF list = <<>> THEN q
  ELSE ScheduleArrivalsOf(
         EQPush(q, Event(Head(list).arrival_time, "PROCESS_ARRIVAL",
                         Head(list).process_id, None)),
         Tail(list))

\* CPUSimulator.initialize_simulation(processes) on the list given
InitializeScenario ==
  /\ pc = "new"
  /\ Commit([St EXCEPT !.processes = ProcessTable(last_op.processes),
                       !.eq = ScheduleArrivalsOf(St.eq, last_op.processes)])
  /\ pc' = "loop"
  /\ last_op' = [last_op EXCEPT !.op = "initialize_simulation"]
  /\ UNCHANGED <<ready_ticks, cs_ticks, run_ticks, expiries, preemptor>>

NextScenario ==
  \/ InitializeScenario
  \/ LoopHead
  \/ HandleArrival
  \/ HandleCpuCompletion
  \/ HandleIoCompletion
  \/ ScheduleNextProcess
  \/ AdvanceClock
  \/ Finish

SpecScenario == InitScenario /\ [][NextScenario]_vars

\* CPUSimulator._collect_results: cpu_utilization, in whole percent
CpuUtilization(s) ==
  IF s.current_time > 0
  THEN ((s.current_time - s.idle_time) * 100) \div s.current_time
  ELSE 0

\* ------------------------------------------------------------------ actions: a bare EventQueue
\* EventQueue() on its own, driven by arbitrary push / pop / peek calls; the data
\* field of each pushed event carries its push number
InitQueue ==
  /\ Init
  /\ policy = "FCFS"
  /\ context_switch_time = 0

QueueStart ==
  /\ pc = "new"
  /\ pc' = "queue"
  /\ UNCHANGED <<simVars, queueVars, schedVars, obsVars>>

Push ==
  /\ pc = "queue"
  /\ last_op.pushed < MaxPushes
  /\ \E ts \in 0..MaxStamp :
       LET q == EQPush(St.eq, Event(ts, "PROCESS_ARRIVAL", 1, last_op.pushed + 1))
       IN  /\ event_queue' = q.queue
           /\ event_count' = q.event_count
  /\ last_op' = [last_op EXCEPT !.op = "push", !.result = NoEvent,
                                !.before = event_queue, !.pushed = @ + 1]
  /\ UNCHANGED <<simVars, schedVars, ready_ticks, cs_ticks, run_ticks, expiries, preemptor, pc>>

Pop ==
  /\ pc = "queue"
  /\ event_queue' = EQPopRest(St.eq).queue
  /\ event_count' = EQPopRest(St.eq).event_count
  /\ last_op' = [last_op EXCEPT !.op = "pop", !.result = EQPopItem(St.eq),
                                !.before = event_queue,
                                !.popped = IF EQPopItem(St.eq) # NoEvent THEN @ + 1 ELSE @]
  /\ UNCHANGED <<simVars, schedVars, ready_ticks, cs_ticks, run_ticks, expiries, preemptor, pc>>

Peek ==
  /\ pc = "queue"
  /\ last_op' = [last_op EXCEPT !.op = "peek", !.result = EQPeek(St.eq),
                                !.before = event_queue]
  /\ UNCHANGED <<simVars, queueVars, schedVars, ready_ticks, cs_ticks, run_ticks, expiries, preemptor, pc>>

NextQueue == QueueStart \/ Push \/ Pop \/ Peek

SpecQueue == InitQueue /\ [][NextQueue]_vars

\* ------------------------------------------------------------------ actions: a bare scheduler
\* a scheduler object on its own, driven by calls of its public methods on PCBs the
\* caller constructed
SchedPids == {1, 2, 3}

\* the PCBs handed to the scheduler: only the fields the policy reads vary (RR and
\* MLFQ only ask whether remaining_cpu_time is positive)
SchedTables(pol) ==
  {[pid \in SchedPids |->
      [PCB(pid, a[pid], c[pid], 0, r[pid]) EXCEPT !.remaining_cpu_time = m[pid]]] :
     a \in [SchedPids -> IF pol \in HeapPolicies THEN 0..MaxArrival ELSE {0}],
     c \in [SchedPids -> IF pol = "SJF" THEN 1..MaxCpu ELSE {MaxCpu}],
     m \in [SchedPids ->
             CASE pol = "SRTF" -> 0..MaxCpu
               [] pol \in {"RR", "MLFQ"} -> {0, MaxCpu}
               [] OTHER -> {MaxCpu}],
     r \in [SchedPids ->
             IF pol \in {"PriorityP", "PriorityNP"} THEN 1..MaxPriority ELSE {1}]}

\* the last scheduler call: its name, its arguments, the pid or the boolean returned
NoCall == [op |-> "none", pid |-> None, cur |-> None, result |-> None, answer |-> FALSE]

\* the scheduler's constructor; the engine around it is never run
InitSched ==
  /\ pc = "new"
  /\ policy \in Policies
  /\ context_switch_time = 0
  /\ max_time = MaxTime
  /\ processes = <<>>
  /\ event_queue = <<>>
  /\ event_count = 0
  /\ running_process = None
  /\ current_time = 0
  /\ idle_time = 0
  /\ last_update_time = 0
  /\ is_context_switching = FALSE
  /\ context_switch_end_time = 0
  /\ completed_processes = <<>>
  /\ gantt_chart = <<>>
  /\ context_switches = 0
  /\ preemptions = 0
  /\ queue = <<>>
  /\ heap = <<>>
  /\ queues = [i \in 1..num_queues |-> <<>>]
  /\ process_counts = [pid \in SchedPids |-> 0]
  /\ sched_preemptions = 0
  /\ last_boost_time = 0
  /\ last_aging_time = 0
  /\ ready_ticks = [pid \in SchedPids |-> 0]
  /\ cs_ticks = 0
  /\ run_ticks = {}
  /\ preemptor = None
  /\ expiries = [pid \in SchedPids |-> 0]
  /\ last_op = NoCall

\* the caller constructs its PCBs
SchedStart ==
  /\ pc = "new"
  /\ \E w \in SchedTables(policy) : Commit([St EXCEPT !.processes = w])
  /\ pc' = "sched"
  /\ UNCHANGED obsVars

\* scheduler.add_process(process), for a process the scheduler does not hold
SchedAddProcess ==
  /\ pc = "sched"
  /\ \E pid \in DOMAIN processes :
        /\ Occurrences(Stored(St), pid) = 0
        /\ Commit(AddProcess(St, pid))
        /\ last_op' = [NoCall EXCEPT !.op = "add_process", !.pid = pid]
  /\ UNCHANGED <<ready_ticks, cs_ticks, run_ticks, expiries, preemptor, pc>>

\* scheduler.get_next_process()
SchedGetNextProcess ==
  /\ pc = "sched"
  /\ (policy = "MLFQ" /\ GetNextPid(St) # None) => process_counts[GetNextPid(St)] < MaxRuns
  /\ Commit(GetNextRest(St))
  /\ last_op' = [NoCall EXCEPT !.op = "get_next_process", !.result = GetNextPid(St)]
  /\ UNCHANGED <<ready_ticks, cs_ticks, run_ticks, expiries, preemptor, pc>>

\* scheduler.should_preempt(current_process, new_process)
SchedShouldPreempt ==
  /\ pc = "sched"
  /\ \E cur \in DOMAIN processes \cup {None}, new \in DOMAIN processes :
        last_op' = [NoCall EXCEPT !.op = "should_preempt", !.cur = cur, !.pid = new,
                                  !.answer = ShouldPreempt(St, cur, new)]
  /\ UNCHANGED <<simVars, queueVars, schedVars, ready_ticks, cs_ticks, run_ticks, expiries, preemptor, pc>>

\* scheduler.on_time_quantum_expired(process), for a process the scheduler handed out
\* or never held
SchedQuantumExpired ==
  /\ pc = "sched"
  /\ sched_preemptions < MaxRuns
  /\ \E pid \in DOMAIN processes :
        /\ Occurrences(Stored(St), pid) = 0
        /\ Commit(OnTimeQuantumExpired(St, pid))
        /\ last_op' = [NoCall EXCEPT !.op = "on_time_quantum_expired", !.pid = pid]
  /\ UNCHANGED <<ready_ticks, cs_ticks, run_ticks, expiries, preemptor, pc>>

\* the times at which the caller asks for a boost: just before, at and well after
\* the interval
BoostTimes == {boost_interval - 1, boost_interval, 2 * boost_interval - 1}

\* MLFQScheduler.apply_priority_boost(current_time)
SchedPriorityBoost ==
  /\ pc = "sched"
  /\ policy = "MLFQ"
  /\ \E now \in BoostTimes :
        /\ Commit(ApplyPriorityBoost(St, now))
        /\ last_op' = [NoCall EXCEPT !.op = "apply_priority_boost", !.result = now,
                                  !.answer = (now - last_boost_time >= boost_interval)]
  /\ UNCHANGED <<ready_ticks, cs_ticks, run_ticks, expiries, preemptor, pc>>

\* the times at which the caller asks for an aging sweep: just before the interval,
\* at it, one tick later, and a full interval after that
AgingTimes ==
  {aging_interval - 1, aging_interval, aging_interval + 1, 2 * aging_interval + 1}

\* PriorityScheduler.apply_aging(current_time)
SchedApplyAging ==
  /\ pc = "sched"
  /\ policy \in {"PriorityP", "PriorityNP"}
  /\ \E now \in AgingTimes :
        /\ Commit(ApplyAging(St, now))
        /\ last_op' = [NoCall EXCEPT !.op = "apply_aging", !.result = now,
                                  !.answer = (now - last_aging_time >= aging_interval)]
  /\ UNCHANGED <<ready_ticks, cs_ticks, run_ticks, expiries, preemptor, pc>>

NextSched ==
  \/ SchedStart
  \/ SchedAddProcess
  \/ SchedGetNextProcess
  \/ SchedQuantumExpired
  \/ SchedPriorityBoost
  \/ SchedApplyAging

\* the methods that change what the scheduler stores
SpecSched == InitSched /\ [][NextSched]_vars

NextPreempt ==
  \/ SchedStart
  \/ SchedShouldPreempt

\* should_preempt, which reads only the two PCBs it is given
SpecPreempt == InitSched /\ [][NextPreempt]_vars

\* ------------------------------------------------------------------ actions: a bare PCB
\* PCBs on their own, as test_age_priority drives one: the caller constructs them
\* and calls age_priority at times of its choosing
PcbPids == {1, 2}

\* the priority test_age_priority gives its PCB
TestPriority == 5

\* the times of the calls: the three of test_age_priority, and the interval itself
\* with the tick after it
AgeCallTimes == {aging_interval, aging_interval + 1, 1500, 2000, 3000}

PcbTables ==
  {[pid \in PcbPids |-> PCB(pid, a[pid], MaxCpu, 0, r[pid])] :
     a \in [PcbPids -> 0..MaxArrival], r \in [PcbPids -> 1..TestPriority]}

InitPcb ==
  /\ pc = "pcb"
  /\ policy = "PriorityP"
  /\ context_switch_time = 0
  /\ max_time = MaxTime
  /\ processes \in PcbTables
  /\ event_queue = <<>>
  /\ event_count = 0
  /\ running_process = None
  /\ current_time = 0
  /\ idle_time = 0
  /\ last_update_time = 0
  /\ is_context_switching = FALSE
  /\ context_switch_end_time = 0
  /\ completed_processes = <<>>
  /\ gantt_chart = <<>>
  /\ context_switches = 0
  /\ preemptions = 0
  /\ queue = <<>>
  /\ heap = <<>>
  /\ queues = [i \in 1..num_queues |-> <<>>]
  /\ process_counts = [pid \in PcbPids |-> 0]
  /\ sched_preemptions = 0
  /\ last_boost_time = 0
  /\ last_aging_time = 0
  /\ ready_ticks = [pid \in PcbPids |-> 0]
  /\ cs_ticks = 0
  /\ run_ticks = {}
  /\ preemptor = None
  /\ expiries = [pid \in PcbPids |-> 0]
  /\ last_op = NoCall

\* pcb.age_priority(current_time=now, aging_interval=1000): last_op keeps the pid,
\* the time passed and the boolean returned
PcbAgePriority ==
  /\ pc = "pcb"
  /\ \E pid \in DOMAIN processes, now \in AgeCallTimes :
        /\ Commit([St EXCEPT !.processes[pid] = AgedPcb(processes[pid], now)])
        /\ last_op' = [NoCall EXCEPT !.op = "age_priority", !.pid = pid, !.result = now,
                                  !.answer = AgePriority(processes[pid], now)]
  /\ UNCHANGED <<ready_ticks, cs_ticks, run_ticks, expiries, preemptor, pc>>

NextPcb == PcbAgePriority

SpecPcb == InitPcb /\ [][NextPcb]_vars

\* ------------------------------------------------------------------ claims on the bare EventQueue
Elems(seq) == {seq[i] : i \in 1..Len(seq)}

\* C9: events with equal timestamps are popped in the order they were pushed: a
\* popped event leaves no event behind that has its timestamp and was pushed earlier
C9_TiesPoppedInPushOrder ==
  (last_op.op = "pop" /\ last_op.result # NoEvent) =>
     \A e \in Elems(event_queue) :
        Timestamp(e) = Timestamp(last_op.result) => e.data > last_op.result.data

\* C10: pop returns and removes an event of minimum timestamp, peek returns such an
\* event and removes nothing, size and is_empty count the pushed-but-not-popped
\* events, and pop on an empty queue returns None and changes nothing
C10_PopReturnsMinimum ==
  /\ EQSize(St.eq) = last_op.pushed - last_op.popped
  /\ EQIsEmpty(St.eq) <=> (last_op.pushed = last_op.popped)
  /\ event_count = last_op.pushed - last_op.popped
  /\ (last_op.op = "pop" /\ last_op.before # <<>>) =>
        /\ last_op.result \in Elems(last_op.before)
        /\ \A e \in Elems(last_op.before) : Timestamp(last_op.result) <= Timestamp(e)
        /\ Elems(event_queue) = Elems(last_op.before) \ {last_op.result}
        /\ Len(event_queue) = Len(last_op.before) - 1
  /\ (last_op.op = "pop" /\ last_op.before = <<>>) =>
        /\ last_op.result = NoEvent
        /\ event_queue = <<>>
  /\ last_op.op = "peek" =>
        /\ event_queue = last_op.before
        /\ last_op.result = EQPopItem(St.eq)
        /\ last_op.before = <<>> => last_op.result = NoEvent
        /\ last_op.before # <<>> =>
             /\ last_op.result \in Elems(event_queue)
             /\ \A e \in Elems(event_queue) : Timestamp(last_op.result) <= Timestamp(e)

\* a pop that returned an event pushed after a later-stamped one that is still queued
C10_Witness ==
  /\ last_op.op = "pop"
  /\ Len(last_op.before) >= 3
  /\ \E e \in Elems(event_queue) :
        e.data < last_op.result.data /\ Timestamp(e) > Timestamp(last_op.result)

\* ------------------------------------------------------------------ claims on a run
Table == DOMAIN processes

PendingIo(pid) ==
  Cardinality({i \in 1..Len(event_queue) :
                 event_queue[i].type = "IO_BURST_COMPLETE" /\ event_queue[i].process_id = pid})

RECURSIVE GanttTotal(_)
GanttTotal(g) == IF g = <<>> THEN 0 ELSE (Head(g)[2] - Head(g)[1]) + GanttTotal(Tail(g))

\* C1: a run that stops before the cap (max_time was large enough) has completed
\* every process of the workload exactly once
C1_AllCompletedWhenTimeSuffices ==
  (pc = "done" /\ current_time <= max_time) =>
     /\ Len(completed_processes) = Cardinality(Table)
     /\ \A pid \in Table : Occurrences(completed_processes, pid) = 1

\* C2: at most one PCB is RUNNING, and a RUNNING PCB is the one in the running slot
C2_AtMostOneRunning ==
  /\ Cardinality({pid \in Table : processes[pid].state = "RUNNING"}) <= 1
  /\ \A pid \in Table : processes[pid].state = "RUNNING" => running_process = pid

\* two processes have arrived, one was preempted and one of them is RUNNING
C2_Witness ==
  /\ preemptions > 0
  /\ \E pid \in Table : processes[pid].state = "RUNNING"
  /\ \E pid \in Table : processes[pid].state = "READY"

\* C3: every arrived, unterminated process is held exactly once: by the running slot,
\* by the scheduler (one entry) or by the waiting set (one pending I/O completion)
C3_HeldExactlyOnce ==
  \A pid \in Table :
     processes[pid].state \notin {"NEW", "TERMINATED"} =>
        (IF running_process = pid THEN 1 ELSE 0)
          + Occurrences(Stored(St), pid) + PendingIo(pid) = 1

\* C4: a PCB is TERMINATED, has a completion_time or is in completed_processes only
\* if its remaining_cpu_time is 0
C4_FinalisedOnlyWhenDone ==
  \A pid \in Table :
     (\/ processes[pid].state = "TERMINATED"
      \/ processes[pid].completion_time # None
      \/ Occurrences(completed_processes, pid) > 0)
       => processes[pid].remaining_cpu_time = 0

AllowedTransitions ==
  {<<"NEW", "READY">>, <<"READY", "RUNNING">>, <<"RUNNING", "WAITING">>,
   <<"RUNNING", "READY">>, <<"RUNNING", "TERMINATED">>, <<"WAITING", "READY">>}

\* C5: every change of a PCB's state is one of the six allowed transitions
C5_OnlyAllowedTransitions ==
  [][\A pid \in Table \cap DOMAIN processes' :
        processes'[pid].state # processes[pid].state =>
           <<processes[pid].state, processes'[pid].state>> \in AllowedTransitions]_vars

\* C6: the reported waiting time of a completed process is the number of ticks it
\* spent in state READY
C6_WaitingIsReadyTime ==
  \A pid \in Table :
     Occurrences(completed_processes, pid) > 0 =>
        processes[pid].waiting_time = ready_ticks[pid]

\* C7: turnaround = waiting + total_cpu_time + total_io_time for a completed process
C7_TurnaroundIdentity ==
  \A pid \in Table :
     Occurrences(completed_processes, pid) > 0 =>
        processes[pid].turnaround_time =
           processes[pid].waiting_time + processes[pid].total_cpu_time
             + processes[pid].total_io_time

\* C8: at the end of a run, CPU ticks served (the Gantt segments) + idle_time + ticks
\* spent in context switches = the total simulated time
C8_AccountingIdentity ==
  pc = "done" =>
     GanttTotal(gantt_chart) + idle_time + cs_ticks = current_time

\* a finished run with served segments and an idle gap
C8_Witness ==
  /\ pc = "done"
  /\ idle_time > 0
  /\ Len(gantt_chart) >= 2

\* a finished run with context-switch ticks and an idle gap
C8_WitnessSwitch ==
  /\ pc = "done"
  /\ idle_time > 0
  /\ cs_ticks > 0

\* the smaller of two numbers
Min(a, b) == IF a <= b THEN a ELSE b

\* C11: under SRTF, a process that is dispatched (put in the empty running slot) has
\* the minimum remaining_cpu_time among the processes that were READY, stored by the
\* scheduler or running just before
C11_DispatchesShortestRemaining ==
  [][(policy = "SRTF" /\ running_process = None /\ running_process' # None) =>
        \A q \in Table :
           (\/ processes[q].state = "READY"
            \/ Occurrences(ReadyQueue(St), q) > 0
            \/ running_process = q)
             => processes[running_process'].remaining_cpu_time
                  <= processes[q].remaining_cpu_time]_vars

\* SRTF has just dispatched a process over a longer one with a smaller pid that
\* arrived no later and is still READY
C11_Witness ==
  /\ policy = "SRTF"
  /\ pc = "advance"
  /\ running_process # None
  /\ \E q \in Table :
        /\ processes[q].state = "READY"
        /\ q < running_process
        /\ processes[q].arrival_time <= processes[running_process].arrival_time
        /\ processes[q].remaining_cpu_time > processes[running_process].remaining_cpu_time

\* C12: under RR, a RUNNING process has held the CPU for at most TimeQuantum ticks
\* since its dispatch (the start of the last Gantt segment)
C12_QuantumBound ==
  policy = "RR" =>
     \A pid \in Table :
        processes[pid].state = "RUNNING" =>
           /\ gantt_chart # <<>>
           /\ current_time - gantt_chart[Len(gantt_chart)][1] <= TimeQuantum

\* C12, the case it is about: under FCFS and RR nothing is ever dispatched, because
\* is_empty() reads the list that add_process never fills
C12_NeverDispatched ==
  policy \in DequePolicies =>
     /\ running_process = None
     /\ gantt_chart = <<>>
     /\ \A pid \in Table : processes[pid].state # "RUNNING"

\* C13: under preemptive Priority, no READY process has a strictly smaller priority
\* value than the RUNNING process
C13_NoHigherPriorityWaits ==
  policy = "PriorityP" =>
     \A r \in Table, q \in Table :
        (processes[r].state = "RUNNING" /\ processes[q].state = "READY")
          => ~(processes[q].priority < processes[r].priority)

\* a preemption has happened and the RUNNING process now outranks a READY one
C13_Witness ==
  /\ policy = "PriorityP"
  /\ preemptions > 0
  /\ \E r \in Table, q \in Table :
        /\ processes[r].state = "RUNNING"
        /\ processes[q].state = "READY"
        /\ processes[r].priority < processes[q].priority

\* C14: in a run under MLFQ, when the running process's quantum expires for the
\* promotion_threshold-th time at the same level L with work remaining, it is
\* afterwards queued at level min(L+1, N-1) with its run-count reset to 0
C14_DemotedAfterThreshold ==
  [][(/\ policy = "MLFQ"
      /\ Due("TIME_QUANTUM_EXPIRED")
      /\ running_process = DueEvent.process_id
      /\ processes[DueEvent.process_id].remaining_cpu_time > 0
      /\ expiries[DueEvent.process_id] + 1 = promotion_threshold)
       => LET pid == DueEvent.process_id
              level == Min(processes[pid].current_queue_level + 1, num_queues - 1)
          IN  /\ processes'[pid].current_queue_level = level
              /\ process_counts'[pid] = 0
              /\ Occurrences(queues'[level + 1], pid) = 1]_vars

\* C20: PriorityScheduler.should_preempt is TRUE exactly when the scheduler is
\* preemptive, a current process exists and the new priority is strictly smaller;
\* under the non-preemptive scheduler no process is ever preempted
C20_PriorityPreemptRule ==
  policy \in {"PriorityP", "PriorityNP"} =>
     /\ \A cur \in Table \cup {None}, new \in Table :
           ShouldPreempt(St, cur, new) <=>
              /\ policy = "PriorityP"
              /\ cur # None
              /\ processes[new].priority < processes[cur].priority
     /\ policy = "PriorityNP" =>
           /\ preemptions = 0
           /\ \A pid \in Table : ~processes[pid].preempted

\* under the non-preemptive scheduler a process keeps running while a process of
\* strictly smaller priority value, which arrived later, is READY
C20_Witness ==
  /\ policy = "PriorityNP"
  /\ \E r \in Table, q \in Table :
        /\ processes[r].state = "RUNNING"
        /\ running_process = r
        /\ processes[q].state = "READY"
        /\ processes[q].arrival_time > processes[r].arrival_time
        /\ processes[q].priority < processes[r].priority

\* ------------------------------------------------------------------ claims on a bare scheduler
\* the step is a call of the named scheduler method
Called(op) == last_op'.op = op /\ vars' # vars

\* C14, called directly: on_time_quantum_expired on a process with work remaining
\* and a run-count at the threshold queues it at level min(L+1, N-1) with the
\* run-count reset
C14_DemotedWhenCalledDirectly ==
  [][(/\ policy = "MLFQ"
      /\ Called("on_time_quantum_expired")
      /\ processes[last_op'.pid].remaining_cpu_time > 0
      /\ process_counts[last_op'.pid] >= promotion_threshold)
       => LET pid == last_op'.pid
              level == Min(processes[pid].current_queue_level + 1, num_queues - 1)
          IN  /\ processes'[pid].current_queue_level = level
              /\ process_counts'[pid] = 0
              /\ queues' = [queues EXCEPT ![level + 1] = Append(@, pid)]]_vars

\* C15: a boost that fires leaves every held process in queue 0 with level 0 and
\* run-count 0, the other queues empty, and holds each process as often as before;
\* a boost before the interval has elapsed changes nothing
C15_BoostMovesAllToTop ==
  [][(policy = "MLFQ" /\ Called("apply_priority_boost")) =>
        IF last_op'.result - last_boost_time >= boost_interval
        THEN /\ \A i \in 2..num_queues : queues'[i] = <<>>
             /\ \A pid \in Table :
                   /\ Occurrences(Flatten(queues'), pid) = Occurrences(Flatten(queues), pid)
                   /\ Occurrences(queues'[1], pid) > 0 =>
                         /\ processes'[pid].current_queue_level = 0
                         /\ process_counts'[pid] = 0
        ELSE UNCHANGED <<queues, processes, process_counts, last_boost_time>>]_vars

\* C16: MLFQ add_process appends the process to queue 0 and sets its level to 0;
\* get_next_process removes and returns the head of the lowest-indexed non-empty
\* queue, or returns None when every queue is empty
C16_MlfqAdmitAndSelect ==
  [][policy = "MLFQ" =>
        /\ Called("add_process") =>
              /\ queues' = [queues EXCEPT ![1] = Append(@, last_op'.pid)]
              /\ processes'[last_op'.pid].current_queue_level = 0
        /\ Called("get_next_process") =>
              IF \A i \in 1..num_queues : queues[i] = <<>>
              THEN last_op'.result = None /\ queues' = queues
              ELSE \E i \in 1..num_queues :
                      /\ queues[i] # <<>>
                      /\ \A j \in 1..(i - 1) : queues[j] = <<>>
                      /\ last_op'.result = Head(queues[i])
                      /\ queues' = [queues EXCEPT ![i] = Tail(@)]]_vars

\* get_next_process has just handed out a process of level 1 while a process of the
\* last level is still queued
C16_Witness ==
  /\ policy = "MLFQ"
  /\ last_op.op = "get_next_process"
  /\ last_op.result # None
  /\ processes[last_op.result].current_queue_level = 1
  /\ queues[num_queues] # <<>>

\* C17: FCFS hands processes out in the order they were admitted, returns None when
\* nothing is queued, and never asks for a preemption
C17_FcfsFifo ==
  [][policy = "FCFS" =>
        /\ Called("add_process") => queue' = Append(queue, last_op'.pid)
        /\ Called("get_next_process") =>
              IF queue = <<>>
              THEN last_op'.result = None /\ queue' = queue
              ELSE last_op'.result = Head(queue) /\ queue' = Tail(queue)
        /\ \A cur \in Table \cup {None}, new \in Table : ~ShouldPreempt(St, cur, new)]_vars

\* FCFS has handed out a process while a process with a smaller pid, admitted
\* later, is still queued
C17_Witness ==
  /\ policy = "FCFS"
  /\ last_op.op = "get_next_process"
  /\ last_op.result # None
  /\ \E pid \in Elems(queue) : pid < last_op.result

\* the SJF order: total_cpu_time, then arrival_time, then pid
SjfBefore(p, q) ==
  LexLt(<<p.total_cpu_time, p.arrival_time, p.process_id>>,
        <<q.total_cpu_time, q.arrival_time, q.process_id>>)

\* C18: SJF get_next_process removes and returns the queued process that is first in
\* the order (total_cpu_time, arrival_time, pid), whatever the order of admission
C18_SjfShortestFirst ==
  [][(policy = "SJF" /\ Called("get_next_process")) =>
        IF heap = <<>>
        THEN last_op'.result = None /\ heap' = heap
        ELSE /\ Occurrences(ReadyQueue(St), last_op'.result) = 1
             /\ \A q \in Elems(ReadyQueue(St)) :
                   q # last_op'.result => SjfBefore(processes[last_op'.result], processes[q])
             /\ Len(heap') = Len(heap) - 1
             /\ Elems(heap') = Elems(heap) \ {HeapEntry("SJF", processes[last_op'.result])}]_vars

\* SJF has handed out the process with the largest pid out of three, one of the others
\* being strictly longer and the other as long but arrived later
C18_Witness ==
  /\ policy = "SJF"
  /\ last_op.op = "get_next_process"
  /\ last_op.result # None
  /\ Len(heap) = Cardinality(SchedPids) - 1
  /\ \A q \in Elems(ReadyQueue(St)) : q < last_op.result
  /\ \E q \in Elems(ReadyQueue(St)) :
        processes[q].total_cpu_time > processes[last_op.result].total_cpu_time
  /\ \E q \in Elems(ReadyQueue(St)) :
        /\ processes[q].total_cpu_time = processes[last_op.result].total_cpu_time
        /\ processes[q].arrival_time > processes[last_op.result].arrival_time

\* C19: SRTF should_preempt(current, new) is TRUE exactly when current is not None
\* and new.remaining_cpu_time < current.remaining_cpu_time
C19_SrtfPreemptRule ==
  (policy = "SRTF" /\ last_op.op = "should_preempt") =>
     (last_op.answer <=>
        /\ last_op.cur # None
        /\ processes[last_op.pid].remaining_cpu_time
             < processes[last_op.cur].remaining_cpu_time)

\* should_preempt answered FALSE for two different processes of equal remaining time
C19_Witness ==
  /\ policy = "SRTF"
  /\ last_op.op = "should_preempt"
  /\ last_op.cur # None
  /\ last_op.cur # last_op.pid
  /\ processes[last_op.pid].remaining_cpu_time = processes[last_op.cur].remaining_cpu_time
  /\ ~last_op.answer

\* the pids the heap scheduler holds
Queued(h) == {h[i].pid : i \in 1..Len(h)}

\* C21: a sweep of apply_aging that fires lowers by exactly 1 the priority of every
\* queued process whose priority exceeds 1, whatever its arrival time, leaves a
\* priority of 1 and every process that is not queued as they were, and leaves the
\* set of queued processes unchanged
C21_AgingLowersEveryQueued ==
  [][(Called("apply_aging") /\ last_op'.answer) =>
        /\ Queued(heap') = Queued(heap)
        /\ \A pid \in DOMAIN processes :
              processes'[pid].priority =
                IF pid \in Queued(heap) /\ processes[pid].priority > 1
                THEN processes[pid].priority - 1
                ELSE processes[pid].priority]_vars

\* C22: get_queue_length counts the processes admitted by add_process and not yet
\* removed by get_next_process (one more after an admission, one fewer after a
\* removal, the same after a get_next_process that returns nothing), and is_empty
\* is TRUE exactly when that count is zero
C22_LengthCountsAdmitted ==
  [][/\ Called("add_process") =>
           /\ GetQueueLength(St)' = GetQueueLength(St) + 1
           /\ ~IsEmpty(St)'
     /\ Called("get_next_process") =>
           /\ IsEmpty(St) <=> last_op'.result = None
           /\ GetQueueLength(St)' =
                IF last_op'.result = None THEN GetQueueLength(St) ELSE GetQueueLength(St) - 1
           /\ IsEmpty(St)' <=> GetQueueLength(St)' = 0]_vars

\* C23: a completed process has response_time = first_run_time - arrival_time with
\* 0 <= response_time <= turnaround_time (arrival_time <= first_run_time <=
\* completion_time); first_run_time is set to the clock on the process's first
\* transition to RUNNING, is set whenever a process is RUNNING, and never changes
\* once set
C23_ResponseWithinTurnaround ==
  [][/\ \A pid \in DOMAIN processes' :
           Occurrences(completed_processes', pid) > 0 =>
              LET p == processes'[pid]
              IN  /\ p.first_run_time # None
                  /\ p.response_time = p.first_run_time - p.arrival_time
                  /\ 0 <= p.response_time
                  /\ p.response_time <= p.turnaround_time
                  /\ p.arrival_time <= p.first_run_time
                  /\ p.first_run_time <= p.completion_time
     /\ \A pid \in Table :
           LET old == processes[pid]
               new == processes'[pid]
           IN  /\ new.state = "RUNNING" => new.first_run_time # None
               /\ new.first_run_time # old.first_run_time =>
                     /\ old.first_run_time = None
                     /\ old.state # "RUNNING"
                     /\ new.state = "RUNNING"
                     /\ new.first_run_time = current_time']_vars

\* a run ends with a completed process that waited for its first dispatch and was
\* dispatched more than once
C23_Witness ==
  /\ pc = "done"
  /\ \E pid \in Table :
        /\ Occurrences(completed_processes, pid) > 0
        /\ processes[pid].response_time > 0
        /\ Cardinality({i \in 1..Len(gantt_chart) : gantt_chart[i][3] = pid}) >= 2

\* C24: in every state of a run every process has 0 <= remaining_cpu_time <=
\* total_cpu_time, and no step increases a process's remaining_cpu_time
C24_RemainingBounded ==
  [][\A pid \in DOMAIN processes' :
        /\ 0 <= processes'[pid].remaining_cpu_time
        /\ processes'[pid].remaining_cpu_time <= processes'[pid].total_cpu_time
        /\ pid \in Table =>
              processes'[pid].remaining_cpu_time <= processes[pid].remaining_cpu_time]_vars

\* a process that was dispatched and preempted is on the CPU again
C24_Witness ==
  \E pid \in Table :
     /\ running_process = pid
     /\ processes[pid].preempted
     /\ processes[pid].remaining_cpu_time <= processes[pid].total_cpu_time

\* C25: max_time caps the simulated clock: in the results of a finished run no
\* process has a completion_time, and no Gantt segment an end, greater than max_time
C25_MaxTimeIsHardCap ==
  pc = "done" =>
     /\ \A pid \in Table : processes[pid].completion_time <= max_time
     /\ \A i \in 1..Len(gantt_chart) : gantt_chart[i][2] <= max_time

\* C26: under SRTF with no context-switch cost, P1 (arrival 0, CPU 100) and P2
\* (arrival 10, CPU 20), no I/O: P2 preempts P1 at 10 and completes at 30, P1
\* completes at 120, the turnarounds are 120 and 20 and one preemption is counted
C26_SrtfExample ==
  (last_op.name = "srtf_preemption" /\ pc = "done") =>
     /\ gantt_chart = <<<<0, 10, 1>>, <<10, 30, 2>>, <<30, 120, 1>>>>
     /\ processes[2].completion_time = 30
     /\ processes[1].completion_time = 120
     /\ processes[1].turnaround_time = 120
     /\ processes[2].turnaround_time = 20
     /\ preemptions = 1

\* C27: under FCFS with no context-switch cost the single process (1, arrival 0,
\* CPU 50, no I/O) completes with turnaround 50, waiting 0 and response 0, and the
\* run reports a CPU utilisation of 100%
C27_FcfsSingleProcess ==
  (last_op.name = "fcfs_single" /\ pc = "done") =>
     /\ completed_processes = <<1>>
     /\ processes[1].turnaround_time = 50
     /\ processes[1].waiting_time = 0
     /\ processes[1].response_time = 0
     /\ CpuUtilization(St) = 100

\* a list initialize_simulation should accept: no pid twice, every CPU demand positive
ValidWorkload(list) ==
  /\ \A i, j \in 1..Len(list) : list[i].process_id = list[j].process_id => i = j
  /\ \A i \in 1..Len(list) : list[i].total_cpu_time > 0

\* C29: a workload with a repeated pid or with a total_cpu_time <= 0 is rejected
\* at initialisation: the run never starts on it
C29_InvalidWorkloadRejected ==
  ~ValidWorkload(last_op.processes) => pc = "new"

\* the CPU-completion or quantum-expiry event about to be handled was scheduled by
\* an earlier dispatch of the process that is running now: the dispatch in progress
\* (the last Gantt segment) ends at another time
StaleEventDue ==
  /\ pc = "events"
  /\ EventDue(St)
  /\ DueEvent.type \in {"CPU_BURST_COMPLETE", "TIME_QUANTUM_EXPIRED"}
  /\ running_process # None
  /\ running_process = DueEvent.process_id
  /\ gantt_chart # <<>>
  /\ gantt_chart[Len(gantt_chart)][3] = running_process
  /\ gantt_chart[Len(gantt_chart)][2] # Timestamp(DueEvent)

\* C30: a CPU_BURST_COMPLETE or TIME_QUANTUM_EXPIRED event of a superseded dispatch
\* is discarded, also when the same process is RUNNING again: handling it changes
\* no process, not the running process, not what the scheduler holds, not the Gantt
\* chart and not the counters
C30_StaleEventsDiscarded ==
  [][StaleEventDue =>
        /\ processes' = processes
        /\ running_process' = running_process
        /\ schedVars' = schedVars
        /\ gantt_chart' = gantt_chart
        /\ completed_processes' = completed_processes
        /\ preemptions' = preemptions
        /\ context_switches' = context_switches]_vars

\* CPUSimulator._handle_event: the handler of the event's type
HandleEventF(s, e) ==
  CASE e.type = "PROCESS_ARRIVAL" -> HandleArrivalF(s, e)
    [] e.type = "CPU_BURST_COMPLETE" -> HandleCpuCompletionF(s, e)
    [] e.type = "IO_BURST_COMPLETE" -> HandleIoCompletionF(s, e)
    [] OTHER -> HandleTimeoutF(s, e)

\* the statement run executes next, as a function of the state it is in
RunStep ==
  CASE pc = "loop" ->
         IF LoopCondition(St) THEN LoopHeadF(St) ELSE CompleteCurrentProcess(St)
    [] pc = "events" ->
         IF EventDue(St) THEN HandleEventF(Popped, DueEvent)
         ELSE IF MaySchedule(St) THEN ScheduleNextProcessF(St)
         ELSE AdvanceClockF(St)
    [] pc = "advance" -> AdvanceClockF(St)
    [] OTHER -> St

\* where run continues after that statement
RunPc ==
  CASE pc = "loop" -> IF LoopCondition(St) THEN "events" ELSE "done"
    [] pc = "events" ->
         IF EventDue(St) THEN "events"
         ELSE IF MaySchedule(St) THEN "advance"
         ELSE "loop"
    [] pc = "advance" -> "loop"
    [] OTHER -> pc

C31_SwitchEndsInDispatch ==
  /\ is_context_switching => running_process = None
  /\ (pc = "loop" /\ context_switches > 0) =>
        /\ \E pid \in Table :
              /\ processes[pid].first_run_time # None
              /\ processes[pid].first_run_time <= current_time
        /\ gantt_chart # <<>>

\* C32: when a process leaves the CPU its remaining_cpu_time goes down by the CPU
\* time of that dispatch, the clock minus the start of its Gantt segment (the whole
\* burst on a natural completion, the quantum on an expiry, the time run so far on
\* a preemption)
C32_RemainingReducedByConsumed ==
  [][\A pid \in Table :
        (/\ running_process = pid
         /\ running_process' # pid
         /\ gantt_chart # <<>>
         /\ gantt_chart[Len(gantt_chart)][3] = pid) =>
           processes'[pid].remaining_cpu_time =
              processes[pid].remaining_cpu_time
                - (current_time - gantt_chart[Len(gantt_chart)][1])]_vars

\* C33: the engine applies scheduler maintenance on every iteration of the run: at
\* no iteration is the last aging sweep (Priority) or the last boost (MLFQ) further
\* back than its interval, and a process that has been queued with priority > 1
\* through a sweep has had its priority lowered
C33_MaintenanceApplied ==
  pc \in {"loop", "done"} =>
     /\ policy \in {"PriorityP", "PriorityNP"} =>
           /\ current_time - last_aging_time <= aging_interval
           /\ (last_op.name = "priority_aging" /\ current_time > aging_interval) =>
                 processes[2].priority < 3
     /\ policy = "MLFQ" => current_time - last_boost_time <= boost_interval

\* C34 (the scheduler's half): RoundRobinScheduler.on_time_quantum_expired, called
\* for a process it does not hold, appends the process once behind everything queued
\* and counts one preemption if the process has work left, and changes nothing
\* otherwise
C34_RrExpiryRequeuesOnce ==
  [][(policy = "RR" /\ Called("on_time_quantum_expired")) =>
        LET pid == last_op'.pid
        IN  IF processes[pid].remaining_cpu_time > 0
            THEN /\ queue' = Append(queue, pid)
                 /\ sched_preemptions' = sched_preemptions + 1
            ELSE /\ queue' = queue
                 /\ sched_preemptions' = sched_preemptions]_vars

\* C34 (the engine's half): under RR no quantum expiry is ever handled for a running
\* process, because no process is ever running
C34_NoExpiryUnderRr ==
  policy = "RR" => (running_process = None /\ preemptions = 0 /\ sched_preemptions = 0)

\* C35: when the arrival or I/O return of q preempts the running process p, p
\* becomes READY with one more context switch on its count, the engine counts one
\* more preemption and has no running process, and the next process to become
\* RUNNING is q
C35_PreemptorRunsNext ==
  [][/\ (/\ pc = "events"
         /\ EventDue(St)
         /\ DueEvent.type \in {"PROCESS_ARRIVAL", "IO_BURST_COMPLETE"}
         /\ preemptions' # preemptions) =>
           /\ running_process # None
           /\ preemptions' = preemptions + 1
           /\ running_process' = None
           /\ processes'[running_process].state = "READY"
           /\ processes'[running_process].context_switches =
                processes[running_process].context_switches + 1
     /\ (preemptor # None /\ running_process = None /\ running_process' # None) =>
           running_process' = preemptor]_vars

\* the process whose arrival preempted the CPU has been dispatched in place of the
\* preempted one
C35_Witness ==
  \E pid \in Table :
     /\ running_process = pid
     /\ preemptor = None
     /\ preemptions > 0
     /\ gantt_chart # <<>>
     /\ Len(gantt_chart) >= 2
     /\ gantt_chart[Len(gantt_chart) - 1][3] # pid
     /\ gantt_chart[Len(gantt_chart) - 1][2] = gantt_chart[Len(gantt_chart)][1]
     /\ processes[gantt_chart[Len(gantt_chart) - 1][3]].preempted

\* the number of IO_BURST_COMPLETE events for pid in the heap list q
IoEventsOf(q, pid) ==
  Cardinality({i \in 1..Len(q) :
                 q[i].type = "IO_BURST_COMPLETE" /\ q[i].process_id = pid})

\* C36: handling CPU_BURST_COMPLETE at time t for the running process, with CPU
\* demand left, makes it WAITING, leaves the engine without a running process and
\* schedules its I/O completion at t + io_burst_time; and in every state each
\* WAITING process has exactly one pending IO_BURST_COMPLETE event
C36_WaitingHasOneIoEvent ==
  [][/\ (/\ Due("CPU_BURST_COMPLETE")
         /\ running_process # None
         /\ running_process = DueEvent.process_id
         /\ processes[running_process].remaining_cpu_time > 0) =>
           /\ processes'[running_process].state = "WAITING"
           /\ running_process' = None
           /\ IoEventsOf(event_queue', running_process)
                = IoEventsOf(event_queue, running_process) + 1
           /\ \E i \in 1..Len(event_queue') :
                 /\ event_queue'[i].type = "IO_BURST_COMPLETE"
                 /\ event_queue'[i].process_id = running_process
                 /\ Timestamp(event_queue'[i]) =
                      current_time + processes[running_process].io_burst_time
     /\ \A pid \in DOMAIN processes' :
           processes'[pid].state = "WAITING" => IoEventsOf(event_queue', pid) = 1]_vars

NonPreemptivePolicies == {"FCFS", "SJF", "PriorityNP"}

C38_OneQueueAtOwnLevel ==
  policy = "MLFQ" =>
    \A pid \in Table :
      /\ Occurrences(Flatten(queues), pid) <= 1
      /\ \A i \in 1..Len(queues) :
            Occurrences(queues[i], pid) > 0 => processes[pid].current_queue_level = i - 1

C38_Witness ==
  /\ policy = "MLFQ"
  /\ expiries # [pid \in Pids |-> 0]
  /\ \E pid \in Table : Occurrences(Flatten(queues), pid) > 0


(* C39: at the end of a run the Gantt trace is a sequence of <<start, end,  *)
(* pid>> segments with start <= end, ordered in time and pairwise           *)
(* non-overlapping (each start is at or after the previous end).            *)
C39_GanttOrdered ==
  pc = "done" =>
    /\ \A i \in 1..Len(gantt_chart) : gantt_chart[i][1] <= gantt_chart[i][2]
    /\ \A i \in 2..Len(gantt_chart) : gantt_chart[i][1] >= gantt_chart[i - 1][2]


\* the ticks, as <<t, pid>>, that the segments of a Gantt trace cover
GanttTicks(g) ==
  {<<t, g[i][3]>> : <<i, t>> \in {x \in (1..Len(g)) \X (0..(max_time + 1)) :
                                     g[x[1]][1] <= x[2] /\ x[2] < g[x[1]][2]}}

(* C39, second half: at the end of a run the segments cover exactly the     *)
(* ticks during which their pid was in state RUNNING.                       *)
C39_GanttCoversRunning ==
  pc = "done" => GanttTicks(gantt_chart) = run_ticks


(* C40: PCB.age_priority lowers the priority by 1 and returns True only when *)
(* enough time has passed since the arrival and the priority exceeds 1, and  *)
(* otherwise leaves the priority as it was; a call on a priority of 1        *)
(* returns False and leaves it at 1; and after a call that aged the PCB at   *)
(* t1, a further call at t2 with 0 <= t2 - t1 < aging_interval returns False *)
(* and leaves the priority unchanged.                                        *)
C40_AgePriority ==
  [][Called("age_priority") =>
        LET pid == last_op'.pid
            now == last_op'.result
        IN  /\ last_op'.answer =>
                  /\ now - processes[pid].arrival_time > aging_interval
                  /\ processes[pid].priority > 1
                  /\ processes'[pid].priority = processes[pid].priority - 1
            /\ ~last_op'.answer => processes'[pid].priority = processes[pid].priority
            /\ processes[pid].priority = 1 =>
                  /\ ~last_op'.answer
                  /\ processes'[pid].priority = 1
            /\ (/\ last_op.op = "age_priority"
                /\ last_op.pid = pid
                /\ last_op.answer
                /\ now >= last_op.result
                /\ now - last_op.result < aging_interval) =>
                  /\ ~last_op'.answer
                  /\ processes'[pid].priority = processes[pid].priority]_vars

(* C40 without its middle part: what a single call of age_priority does.    *)
C40_SingleCall ==
  [][Called("age_priority") =>
        LET pid == last_op'.pid
            now == last_op'.result
        IN  /\ last_op'.answer <=>
                  (now - processes[pid].arrival_time > aging_interval /\ processes[pid].priority > 1)
            /\ processes'[pid].priority =
                  IF last_op'.answer THEN processes[pid].priority - 1 ELSE processes[pid].priority
            /\ processes'[pid].priority >= 1]_vars

====
